---- MODULE Spec2Model ----
(***************************************************************************)
(* A model of the RibbonTrail class of OpenGLSandbox (RibbonTrail.h,       *)
(* RibbonTrail.cpp): the deque of trail vertices, the tri-strip index      *)
(* vector, the segment count and the invalid-buffers flag, with one action *)
(* per member function; and of the animation of main.cpp: the draw-element *)
(* counter, the flag of the animation thread, the detached threads of      *)
(* start_animation and the render loop's draw call.                        *)
(***************************************************************************)
EXTENDS Integers, Sequences, FiniteSets, TLC

VARIABLES mNumSegments, mVertices, mIndices, mInvalidBuffers, lastCall, pairCount

\* main.cpp: the globals of the animation, the position and the loaded value
\* of each animation thread, the count last given to glDrawElements, and two
\* records of the past: the start_animation calls made, and for each thread
\* the periodicFunc calls it began since the flag was last lowered
VARIABLES g_numDrawElements, g_shouldRunAnimationThread, pc, seen, drawn,
          startCount, funcAfterStop

ribbonVars == <<mNumSegments, mVertices, mIndices, mInvalidBuffers, lastCall, pairCount>>

animVars == <<g_numDrawElements, g_shouldRunAnimationThread, pc, seen, drawn,
              startCount, funcAfterStop>>

vars == <<mNumSegments, mVertices, mIndices, mInvalidBuffers, lastCall, pairCount,
          g_numDrawElements, g_shouldRunAnimationThread, pc, seen, drawn,
          startCount, funcAfterStop>>

(***************************************************************************)
(* Bounds of the model.                                                    *)
(***************************************************************************)
\* largest segment count a trail is constructed with
MaxSegments == 3

\* number of distinct vertex values a caller passes to addVertexPair
NumVertexValues == 2

\* number of bits of size_t kept by the model; the arithmetic of
\* RibbonTrail.cpp:79 gives the same results for every width >= 3
SizeBits == 16

\* largest number of start_animation calls, each of which detaches a thread
MaxThreads == 2

\* addVertexPair calls made on one trail: enough to fill the largest trail
\* (MaxSegments + 1 pairs) and to discard its two oldest pairs after that
MaxCalls == MaxSegments + 3

SizeMod == 2 ^ SizeBits

\* a glm::vec3 passed by the caller, abstracted to an identity
Vertex == 1 .. NumVertexValues

\* stands for "no vertex argument" in the record of the last call
NoVertex == 0

\* the animation threads, in the order start_animation detaches them
Threads == 1 .. MaxThreads

\* stands for "glDrawElements not called yet"
NotDrawn == 0

(***************************************************************************)
(* size_t arithmetic (unsigned, modulo 2^w).                               *)
(***************************************************************************)
SizeAdd(a, b) == (a + b) % SizeMod

\* the mutation of C19: a subtraction that stops at 0 instead of wrapping
SizeSubSaturating(a, b) == IF a >= b THEN a - b ELSE 0

SizeSub(a, b) == (a - b + SizeMod) % SizeMod

SizeMul(a, b) == (a * b) % SizeMod

(***************************************************************************)
(* RibbonTrail::RibbonTrail: the loop that fills mIndices.                 *)
(***************************************************************************)
\* the mutation of C6: the lower index of a segment's pair computed from
\* segmentIdx instead of segmentIdx - 1
CtorSegmentIndicesShifted(segmentIdx) ==
    IF segmentIdx = 0
    THEN <<0, 1, 3, 2>>
    ELSE LET lowerIdx == SizeAdd(4, SizeMul(2, segmentIdx))
         IN  IF segmentIdx % 2 = 0
             THEN <<SizeAdd(lowerIdx, 1), lowerIdx>>
             ELSE <<lowerIdx, SizeAdd(lowerIdx, 1)>>

\* the mutation of C15: every later pair pushed in natural order
CtorSegmentIndicesNatural(segmentIdx) ==
    IF segmentIdx = 0
    THEN <<0, 1, 3, 2>>
    ELSE LET lowerIdx == SizeAdd(4, SizeMul(2, SizeSub(segmentIdx, 1)))
         IN  <<lowerIdx, SizeAdd(lowerIdx, 1)>>

\* the indices one iteration of the constructor's loop pushes
CtorSegmentIndices(segmentIdx) ==
    IF segmentIdx = 0
    THEN <<0, 1, 3, 2>>
    ELSE LET lowerIdx == SizeAdd(4, SizeMul(2, SizeSub(segmentIdx, 1)))
         IN  IF segmentIdx % 2 = 0
             THEN <<SizeAdd(lowerIdx, 1), lowerIdx>>
             ELSE <<lowerIdx, SizeAdd(lowerIdx, 1)>>

RECURSIVE CtorLoop(_, _, _)
\* for(segmentIdx; segmentIdx < numSegments; segmentIdx++), from segmentIdx on
CtorLoop(indices, segmentIdx, numSegments) ==
    IF segmentIdx < numSegments
    THEN CtorLoop(indices \o CtorSegmentIndices(segmentIdx), segmentIdx + 1, numSegments)
    ELSE indices

\* mIndices as the constructor leaves it
CtorIndices(numSegments) == CtorLoop(<<>>, 0, numSegments)

\* the default member initializer of mInvalidBuffers
mInvalidBuffersInitRaised == TRUE

mInvalidBuffersInit == FALSE

(***************************************************************************)
(* The record of the last member function called and of what it returned.  *)
(***************************************************************************)
Call(op, first, second, count, flag) ==
    [op |-> op, first |-> first, second |-> second, count |-> count, flag |-> flag]

\* the globals of main.cpp as their definitions initialize them, no thread
AnimIdle ==
    /\ g_numDrawElements = 0
    /\ g_shouldRunAnimationThread = FALSE
    /\ pc = [t \in Threads |-> "none"]
    /\ seen = [t \in Threads |-> 0]
    /\ drawn = NotDrawn
    /\ startCount = 0
    /\ funcAfterStop = [t \in Threads |-> 0]

Init ==
    /\ mNumSegments \in 0 .. MaxSegments
    /\ mVertices = <<>>
    /\ mIndices = CtorIndices(mNumSegments)
    /\ mInvalidBuffers = mInvalidBuffersInit
    /\ lastCall = Call("RibbonTrail", NoVertex, NoVertex, 0, FALSE)
    /\ pairCount = 0
    /\ AnimIdle

(***************************************************************************)
(* RibbonTrail::addVertexPair                                              *)
(***************************************************************************)
\* the mutation of C14: four vertices counted for every segment
VertCapFourPerSegment(numSegments) == SizeMul(4, numSegments)

\* the mutation of C18: the - 1 of the segment count left out
VertCapNoMinusOne(numSegments) == SizeAdd(4, SizeMul(2, numSegments))

\* size_t vertCap = 4 + 2*(mNumSegments-1);
VertCap(numSegments) == SizeAdd(4, SizeMul(2, SizeSub(numSegments, 1)))

\* the mutation of C1: the cap test with > for >=
DiscardOldestLate(vertices, vertCap) ==
    IF Len(vertices) > vertCap
    THEN SubSeq(vertices, 3, Len(vertices))
    ELSE vertices

\* the mutation of C2: the newest pair discarded (pop_back for pop_front)
DiscardNewest(vertices, vertCap) ==
    IF Len(vertices) >= vertCap
    THEN SubSeq(vertices, 1, Len(vertices) - 2)
    ELSE vertices

\* if(mVertices.size() >= vertCap) { pop_front(); pop_front(); }
DiscardOldest(vertices, vertCap) ==
    IF Len(vertices) >= vertCap
    THEN SubSeq(vertices, 3, Len(vertices))
    ELSE vertices

\* mVertices.push_back(firstVertex); mVertices.push_back(secondVertex);
PushPair(vertices, firstVertex, secondVertex) ==
    Append(Append(vertices, firstVertex), secondVertex)

\* the mutation of C7: the guard compares with vertCap instead of vertCap - 2
BuildUpIndicesPastCap(indices, vertCap, vertCount) ==
    IF Len(indices) <= vertCap
    THEN IF (vertCount \div 2) % 2 = 1
         THEN indices \o <<vertCount, vertCount + 1>>
         ELSE indices \o <<vertCount + 1, vertCount>>
    ELSE indices

\* the mutation of C8: the guard dropped, a pair of indices pushed on every call
BuildUpIndicesAlways(indices, vertCap, vertCount) ==
    IF (vertCount \div 2) % 2 = 1
    THEN indices \o <<vertCount, vertCount + 1>>
    ELSE indices \o <<vertCount + 1, vertCount>>

\* if(mIndices.size() <= vertCap - 2) { push vertCount, vertCount + 1 in the
\* order (vertCount / 2) % 2 selects }
BuildUpIndices(indices, vertCap, vertCount) ==
    IF Len(indices) <= SizeSub(vertCap, 2)
    THEN IF (vertCount \div 2) % 2 = 1
         THEN indices \o <<vertCount, vertCount + 1>>
         ELSE indices \o <<vertCount + 1, vertCount>>
    ELSE indices

addVertexPair(firstVertex, secondVertex) ==
    /\ pairCount < MaxCalls
    /\ LET vertCap == VertCap(mNumSegments)
           vertices == PushPair(DiscardOldest(mVertices, vertCap), firstVertex, secondVertex)
       IN  /\ mVertices' = vertices
           /\ mIndices' = BuildUpIndices(mIndices, vertCap, Len(vertices))
    /\ lastCall' = Call("addVertexPair", firstVertex, secondVertex, 0, FALSE)
    /\ pairCount' = pairCount + 1
    /\ UNCHANGED <<mNumSegments, mInvalidBuffers>>
    /\ UNCHANGED animVars

(***************************************************************************)
(* RibbonTrail::getNumIndices                                              *)
(***************************************************************************)
getNumIndices ==
    /\ lastCall' = Call("getNumIndices", NoVertex, NoVertex, Len(mIndices), FALSE)
    /\ UNCHANGED <<mNumSegments, mVertices, mIndices, mInvalidBuffers, pairCount>>
    /\ UNCHANGED animVars

(***************************************************************************)
(* The member functions RibbonTrail.h declares and documents and           *)
(* RibbonTrail.cpp does not define.                                        *)
(***************************************************************************)
getVertexCount ==
    /\ lastCall' = Call("getVertexCount", NoVertex, NoVertex, Len(mVertices), FALSE)
    /\ UNCHANGED <<mNumSegments, mVertices, mIndices, mInvalidBuffers, pairCount>>
    /\ UNCHANGED animVars

\* the mutation of C11: only the vertices emptied
resetRibbonVerticesOnly ==
    /\ mVertices' = <<>>
    /\ mInvalidBuffers' = TRUE
    /\ lastCall' = Call("resetRibbon", NoVertex, NoVertex, 0, FALSE)
    /\ UNCHANGED <<mNumSegments, mIndices, pairCount>>
    /\ UNCHANGED animVars

\* the mutation of C12: the flag raised by emptying the trail as well
invalidateBuffersEmptying ==
    /\ mVertices' = <<>>
    /\ mInvalidBuffers' = TRUE
    /\ lastCall' = Call("invalidateBuffers", NoVertex, NoVertex, 0, FALSE)
    /\ UNCHANGED <<mNumSegments, mIndices, pairCount>>
    /\ UNCHANGED animVars

resetRibbon ==
    /\ mVertices' = <<>>
    /\ mIndices' = <<>>
    /\ mInvalidBuffers' = TRUE
    /\ lastCall' = Call("resetRibbon", NoVertex, NoVertex, 0, FALSE)
    /\ UNCHANGED <<mNumSegments, pairCount>>
    /\ UNCHANGED animVars

invalidateBuffers ==
    /\ mInvalidBuffers' = TRUE
    /\ lastCall' = Call("invalidateBuffers", NoVertex, NoVertex, 0, FALSE)
    /\ UNCHANGED <<mNumSegments, mVertices, mIndices, pairCount>>
    /\ UNCHANGED animVars

areBuffersInvalid ==
    /\ lastCall' = Call("areBuffersInvalid", NoVertex, NoVertex, 0, mInvalidBuffers)
    /\ UNCHANGED <<mNumSegments, mVertices, mIndices, mInvalidBuffers, pairCount>>
    /\ UNCHANGED animVars

\* size_t calculateMaxVertexCount() const: 4 + 2*(segmentCount-1)
calculateMaxVertexCount ==
    /\ lastCall' = Call("calculateMaxVertexCount", NoVertex, NoVertex,
                        SizeAdd(4, SizeMul(2, SizeSub(mNumSegments, 1))), FALSE)
    /\ UNCHANGED <<mNumSegments, mVertices, mIndices, mInvalidBuffers, pairCount>>
    /\ UNCHANGED animVars

(***************************************************************************)
(* Specifications.                                                         *)
(***************************************************************************)
AddStep == \E firstVertex \in Vertex : \E secondVertex \in Vertex :
               addVertexPair(firstVertex, secondVertex)

\* every member function, in any order
Next ==
    \/ AddStep
    \/ getNumIndices
    \/ getVertexCount
    \/ resetRibbon
    \/ invalidateBuffers
    \/ areBuffersInvalid
    \/ calculateMaxVertexCount

Spec == Init /\ [][Next]_vars

\* a trail from its construction on, with addVertexPair and the queries only
NextFill ==
    \/ AddStep
    \/ getNumIndices
    \/ getVertexCount
    \/ areBuffersInvalid
    \/ calculateMaxVertexCount

SpecFill == Init /\ [][NextFill]_vars

(***************************************************************************)
(* main.cpp: the animation of the draw-element count.                      *)
(***************************************************************************)
\* RibbonTrail ribbonTrail(3);
RibbonSegmentsInMain == 3

\* g_maxDrawElements = ribbonTrail.getNumIndices();
g_maxDrawElements == Len(CtorIndices(RibbonSegmentsInMain))

\* g_initDrawElements = 2;
g_initDrawElements == 2

\* g_stepDrawElements = 2;
g_stepDrawElements == 2

\* the number of entries of indices[] that generateRibbonTrailVAO() of
\* main.cpp uploads to the element buffer the render loop draws from
BoundElementCount == 8

\* main() up to the call of start_animation: the trail constructed, the
\* animation variables configured, no thread yet
InitMain ==
    /\ mNumSegments = RibbonSegmentsInMain
    /\ mVertices = <<>>
    /\ mIndices = CtorIndices(mNumSegments)
    /\ mInvalidBuffers = mInvalidBuffersInit
    /\ lastCall = Call("getNumIndices", NoVertex, NoVertex, Len(mIndices), FALSE)
    /\ pairCount = 0
    /\ g_numDrawElements = g_initDrawElements
    /\ g_shouldRunAnimationThread = FALSE
    /\ pc = [t \in Threads |-> "none"]
    /\ seen = [t \in Threads |-> 0]
    /\ drawn = NotDrawn
    /\ startCount = 0
    /\ funcAfterStop = [t \in Threads |-> 0]

\* start_animation: the flag raised, a thread detached at its while test
start_animation ==
    /\ startCount < MaxThreads
    /\ g_shouldRunAnimationThread' = TRUE
    /\ startCount' = startCount + 1
    /\ pc' = [pc EXCEPT ![startCount + 1] = "test"]
    /\ UNCHANGED <<g_numDrawElements, seen, drawn, funcAfterStop>>
    /\ UNCHANGED ribbonVars

\* stop_animation: the flag lowered
stop_animation ==
    /\ g_shouldRunAnimationThread' = FALSE
    /\ funcAfterStop' = IF g_shouldRunAnimationThread
                        THEN [t \in Threads |-> 0]
                        ELSE funcAfterStop
    /\ UNCHANGED <<g_numDrawElements, pc, seen, drawn, startCount>>
    /\ UNCHANGED ribbonVars

\* the mutation of C17: the loop entered again whatever the flag
ThreadTestIgnoringFlag(t) ==
    /\ pc[t] = "test"
    /\ pc' = [pc EXCEPT ![t] = "sleep"]
    /\ UNCHANGED <<g_numDrawElements, g_shouldRunAnimationThread, seen, drawn,
                   startCount, funcAfterStop>>
    /\ UNCHANGED ribbonVars

\* while (g_shouldRunAnimationThread)
ThreadTest(t) ==
    /\ pc[t] = "test"
    /\ pc' = [pc EXCEPT ![t] = IF g_shouldRunAnimationThread THEN "sleep" ELSE "done"]
    /\ UNCHANGED <<g_numDrawElements, g_shouldRunAnimationThread, seen, drawn,
                   startCount, funcAfterStop>>
    /\ UNCHANGED ribbonVars

\* std::this_thread::sleep_for(interval) returns and periodicFunc() is called
ThreadSleep(t) ==
    /\ pc[t] = "sleep"
    /\ pc' = [pc EXCEPT ![t] = "func"]
    /\ funcAfterStop' =
           IF ~g_shouldRunAnimationThread /\ funcAfterStop[t] < 2
           THEN [funcAfterStop EXCEPT ![t] = @ + 1]
           ELSE funcAfterStop
    /\ UNCHANGED <<g_numDrawElements, g_shouldRunAnimationThread, seen, drawn, startCount>>
    /\ UNCHANGED ribbonVars

\* the mutation of C16: the test of the maximum with > for >=
PeriodicIfLate(t) ==
    /\ pc[t] = "func"
    /\ seen' = [seen EXCEPT ![t] = g_numDrawElements]
    /\ pc' = [pc EXCEPT ![t] =
                 IF g_numDrawElements > g_maxDrawElements THEN "reset" ELSE "step"]
    /\ UNCHANGED <<g_numDrawElements, g_shouldRunAnimationThread, drawn,
                   startCount, funcAfterStop>>
    /\ UNCHANGED ribbonVars

\* if(g_numDrawElements >= g_maxDrawElements): the counter loaded and compared
PeriodicIf(t) ==
    /\ pc[t] = "func"
    /\ seen' = [seen EXCEPT ![t] = g_numDrawElements]
    /\ pc' = [pc EXCEPT ![t] =
                 IF g_numDrawElements >= g_maxDrawElements THEN "reset" ELSE "step"]
    /\ UNCHANGED <<g_numDrawElements, g_shouldRunAnimationThread, drawn,
                   startCount, funcAfterStop>>
    /\ UNCHANGED ribbonVars

\* g_numDrawElements = g_initDrawElements;
PeriodicReset(t) ==
    /\ pc[t] = "reset"
    /\ g_numDrawElements' = g_initDrawElements
    /\ pc' = [pc EXCEPT ![t] = "test"]
    /\ seen' = [seen EXCEPT ![t] = 0]
    /\ UNCHANGED <<g_shouldRunAnimationThread, drawn, startCount, funcAfterStop>>
    /\ UNCHANGED ribbonVars

\* g_numDrawElements += g_stepDrawElements; the counter is no atomic, so the
\* sum is taken from the counter as it is now or from the value the test loaded
PeriodicStep(t) ==
    /\ pc[t] = "step"
    /\ \/ g_numDrawElements' = g_numDrawElements + g_stepDrawElements
       \/ g_numDrawElements' = seen[t] + g_stepDrawElements
    /\ pc' = [pc EXCEPT ![t] = "test"]
    /\ seen' = [seen EXCEPT ![t] = 0]
    /\ UNCHANGED <<g_shouldRunAnimationThread, drawn, startCount, funcAfterStop>>
    /\ UNCHANGED ribbonVars

\* glDrawElements(GL_TRIANGLE_STRIP, g_numDrawElements, GL_UNSIGNED_INT, nullptr);
Render ==
    /\ drawn' = g_numDrawElements
    /\ UNCHANGED <<g_numDrawElements, g_shouldRunAnimationThread, pc, seen,
                   startCount, funcAfterStop>>
    /\ UNCHANGED ribbonVars

\* one step of the thread start_animation detached t-th
ThreadStep(t) ==
    \/ ThreadTest(t)
    \/ ThreadSleep(t)
    \/ PeriodicIf(t)
    \/ PeriodicReset(t)
    \/ PeriodicStep(t)

NextAnim ==
    \/ start_animation
    \/ stop_animation
    \/ Render
    \/ \E t \in Threads : ThreadStep(t)

\* the animation with start_animation and stop_animation called in any order
SpecAnim == InitMain /\ [][NextAnim]_vars

\* the same, every detached thread being scheduled again and again
FairSpecAnim == SpecAnim /\ \A t \in Threads : WF_vars(ThreadStep(t))

\* start_animation called only while the flag is lowered: by a caller that
\* calls stop_animation before it starts the animation again
NextAnimStopFirst ==
    \/ (~g_shouldRunAnimationThread /\ start_animation)
    \/ stop_animation
    \/ Render
    \/ \E t \in Threads : ThreadStep(t)

SpecAnimStopFirst == InitMain /\ [][NextAnimStopFirst]_vars

\* the threads that are inside the body of their loop
Looping == {t \in Threads : pc[t] \in {"sleep", "func", "reset", "step"}}

(***************************************************************************)
(* The quantities the claims are stated with.                              *)
(***************************************************************************)
\* maxVertexCount = maxIndexCount = 4 + 2*(N-1), over the integers
MaxVertexCount(n) == 4 + 2 * (n - 1)

\* the p-th element (from 1) of the progression 0,1,3,2,4,5,7,6,...
TriStripIndex(p) ==
    LET j == (p - 1) \div 2
        k == (p - 1) % 2
    IN  IF j % 2 = 0 THEN 2 * j + k ELSE 2 * j + 1 - k

\* the first n elements of the progression
TriStripPrefix(n) == [p \in 1 .. n |-> TriStripIndex(p)]

\* the step is a call of addVertexPair
IsAddStep == lastCall'.op = "addVertexPair" /\ pairCount' = pairCount + 1

\* the last call was an addVertexPair that found the trail at its capacity
JustDiscarded ==
    /\ mNumSegments >= 1
    /\ lastCall.op = "addVertexPair"
    /\ pairCount > mNumSegments + 1

(***************************************************************************)
(* C1: with N >= 1, after any sequence of addVertexPair calls the number   *)
(* of vertices of the trail is even and between 0 and 4 + 2*(N-1).         *)
(***************************************************************************)
C1_TrailEvenAndBounded ==
    mNumSegments >= 1 =>
        /\ Len(mVertices) % 2 = 0
        /\ 0 <= Len(mVertices)
        /\ Len(mVertices) <= MaxVertexCount(mNumSegments)

\* a trail of the largest segment count, full, whose last call discarded a pair
C1_Witness ==
    /\ JustDiscarded
    /\ mNumSegments = MaxSegments
    /\ Len(mVertices) = MaxVertexCount(mNumSegments)

(***************************************************************************)
(* C2: with N >= 1, addVertexPair(first, second) appends first then second *)
(* to a trail of fewer than 4 + 2*(N-1) vertices, and on a trail of        *)
(* 4 + 2*(N-1) vertices drops the two oldest, keeps the others in order    *)
(* and appends first then second, the count staying the same.              *)
(***************************************************************************)
C2_FifoWindow ==
    [][(IsAddStep /\ mNumSegments >= 1) =>
          LET cap == MaxVertexCount(mNumSegments)
              pair == <<lastCall'.first, lastCall'.second>>
          IN  IF Len(mVertices) < cap
              THEN mVertices' = mVertices \o pair
              ELSE /\ Len(mVertices) = cap
                   /\ Len(mVertices') = Len(mVertices)
                   /\ \A i \in 1 .. cap - 2 : mVertices'[i] = mVertices[i + 2]
                   /\ mVertices'[cap - 1] = lastCall'.first
                   /\ mVertices'[cap] = lastCall'.second]_vars

\* a discarding call whose trail now starts and ends with different vertices,
\* so that dropping the wrong end would show
C2_Witness ==
    /\ JustDiscarded
    /\ mNumSegments >= 2
    /\ mVertices[1] # mVertices[Len(mVertices) - 1]
    /\ mVertices[1] # mVertices[3]

(***************************************************************************)
(* C3: on a freshly constructed trail with N >= 1, after the k-th          *)
(* addVertexPair call (1 <= k <= N+1) the index sequence is the first 2k   *)
(* elements of 0,1,3,2,4,5,7,6,...: each call appended two indices.        *)
(***************************************************************************)
C3_LazyIndexProgression ==
    (mNumSegments >= 1 /\ 1 <= pairCount /\ pairCount <= mNumSegments + 1) =>
        mIndices = TriStripPrefix(2 * pairCount)

(***************************************************************************)
(* C4: with N >= 1, in every state reached from construction by            *)
(* addVertexPair calls every value of the index sequence is less than the  *)
(* current vertex count.                                                   *)
(***************************************************************************)
C4_IndicesBelowVertexCount ==
    mNumSegments >= 1 =>
        \A i \in 1 .. Len(mIndices) : mIndices[i] < Len(mVertices)

(***************************************************************************)
(* C5: immediately after construction with N >= 1 the index sequence is    *)
(* empty (getNumIndices() == 0).                                           *)
(***************************************************************************)
C5_IndicesEmptyAfterConstruction ==
    (mNumSegments >= 1 /\ lastCall.op = "RibbonTrail") => Len(mIndices) = 0

(***************************************************************************)
(* C6: with N >= 1, in every state reached from construction by            *)
(* addVertexPair calls, full or not, every value of the index sequence is  *)
(* less than maxVertexCount = 4 + 2*(N-1).                                 *)
(***************************************************************************)
C6_IndicesBelowMaxVertexCount ==
    mNumSegments >= 1 =>
        \A i \in 1 .. Len(mIndices) : mIndices[i] < MaxVertexCount(mNumSegments)

\* a trail still filling whose index sequence holds the largest value allowed
C6_Witness ==
    /\ mNumSegments = MaxSegments
    /\ pairCount >= 1
    /\ Len(mVertices) < MaxVertexCount(mNumSegments)
    /\ \E i \in 1 .. Len(mIndices) : mIndices[i] = MaxVertexCount(mNumSegments) - 1

(***************************************************************************)
(* C7: with N >= 1, across addVertexPair calls the number of indices never *)
(* decreases and never exceeds 4 + 2*(N-1), and once it equals 4 + 2*(N-1) *)
(* a further addVertexPair leaves the index sequence as it is.             *)
(***************************************************************************)
C7_IndexCountMonotoneAndCapped ==
    /\ [](mNumSegments >= 1 => Len(mIndices) <= MaxVertexCount(mNumSegments))
    /\ [][(IsAddStep /\ mNumSegments >= 1) =>
          /\ Len(mIndices') >= Len(mIndices)
          /\ Len(mIndices') <= MaxVertexCount(mNumSegments)
          /\ (Len(mIndices) = MaxVertexCount(mNumSegments) => mIndices' = mIndices)]_vars

\* a discarding call on a trail whose index sequence has its full length
C7_Witness ==
    /\ JustDiscarded
    /\ Len(mIndices) = MaxVertexCount(mNumSegments)
    /\ pairCount = MaxCalls

(***************************************************************************)
(* C8: with N >= 1, after exactly 2*N addVertexPair calls on a new trail   *)
(* getVertexCount() and getNumIndices() both return 4 + 2*(N-1).           *)
(***************************************************************************)
C8_FullAfterTwiceNCalls ==
    (mNumSegments >= 1 /\ pairCount = 2 * mNumSegments) =>
        /\ Len(mVertices) = MaxVertexCount(mNumSegments)
        /\ Len(mIndices) = MaxVertexCount(mNumSegments)
        /\ (lastCall.op = "getVertexCount" =>
                lastCall.count = MaxVertexCount(mNumSegments))
        /\ (lastCall.op = "getNumIndices" =>
                lastCall.count = MaxVertexCount(mNumSegments))

\* getNumIndices() called after the 2*N-th call, for the largest N
C8_Witness ==
    /\ mNumSegments = MaxSegments
    /\ pairCount = 2 * mNumSegments
    /\ lastCall.op = "getNumIndices"

(***************************************************************************)
(* C9: in the state right after any addVertexPair call the dirty flag is   *)
(* set: areBuffersInvalid() is true.                                       *)
(***************************************************************************)
C9_AddSetsDirtyFlag ==
    lastCall.op = "addVertexPair" => mInvalidBuffers

(***************************************************************************)
(* C10: the dirty flag is false right after construction, no member        *)
(* function changes it from true to false, and two areBuffersInvalid()     *)
(* calls with nothing between them return the same value.                  *)
(***************************************************************************)
C10_DirtyFlagNeverCleared ==
    /\ [](lastCall.op = "RibbonTrail" => ~mInvalidBuffers)
    /\ [][mInvalidBuffers => mInvalidBuffers']_vars
    /\ [][(lastCall.op = "areBuffersInvalid" /\ lastCall'.op = "areBuffersInvalid")
             => lastCall'.flag = lastCall.flag]_vars

\* areBuffersInvalid() has returned true on a trail that holds vertices
C10_Witness ==
    /\ lastCall.op = "areBuffersInvalid"
    /\ lastCall.flag
    /\ pairCount >= 1
    /\ Len(mVertices) >= 2

(***************************************************************************)
(* C11: from any reachable state resetRibbon() empties the trail and the   *)
(* index sequence (getVertexCount() == 0, getNumIndices() == 0) and sets   *)
(* the dirty flag.                                                         *)
(***************************************************************************)
C11_ResetEmptiesAndDirties ==
    lastCall.op = "resetRibbon" =>
        /\ Len(mVertices) = 0
        /\ Len(mIndices) = 0
        /\ mInvalidBuffers

\* resetRibbon() called on a trail that had been given pairs
C11_Witness ==
    /\ lastCall.op = "resetRibbon"
    /\ mNumSegments >= 1
    /\ pairCount >= 2

(***************************************************************************)
(* C12: from any reachable state invalidateBuffers() leaves the trail and  *)
(* the index sequence as they are and makes areBuffersInvalid() true.      *)
(***************************************************************************)
C12_InvalidateKeepsContents ==
    [][lastCall'.op = "invalidateBuffers" =>
          /\ mVertices' = mVertices
          /\ mIndices' = mIndices
          /\ mInvalidBuffers']_vars

\* invalidateBuffers() called on a trail that holds vertices
C12_Witness ==
    /\ lastCall.op = "invalidateBuffers"
    /\ mInvalidBuffers
    /\ Len(mVertices) >= 2
    /\ Len(mIndices) >= 2

(***************************************************************************)
(* C13: no RibbonTrail with segment count 0 exists on which addVertexPair  *)
(* runs: construction with a count <= 0 is rejected or clamped.            *)
(***************************************************************************)
C13_NoZeroSegmentTrail ==
    lastCall.op = "addVertexPair" => mNumSegments >= 1

(***************************************************************************)
(* C14: with N >= 1, calculateMaxVertexCount() returns 4 + 2*(N-1) in      *)
(* every reachable state, and that is the capacity addVertexPair enforces. *)
(***************************************************************************)
C14_MaxVertexCountIsTheCap ==
    (mNumSegments >= 1 /\ lastCall.op = "calculateMaxVertexCount") =>
        /\ lastCall.count = MaxVertexCount(mNumSegments)
        /\ lastCall.count = VertCap(mNumSegments)
        /\ Len(mVertices) <= lastCall.count

\* calculateMaxVertexCount() called on a full trail of the largest segment count
C14_Witness ==
    /\ lastCall.op = "calculateMaxVertexCount"
    /\ mNumSegments = MaxSegments
    /\ Len(mVertices) = lastCall.count

(***************************************************************************)
(* C15: with N >= 1, the constructor builds an index sequence of           *)
(* 4 + 2*(N-1) entries, a permutation of 0 .. 4+2*(N-1)-1, that follows    *)
(* 0,1,3,2,4,5,7,6,...                                                     *)
(***************************************************************************)
C15_ConstructorBuildsTriStripPermutation ==
    (mNumSegments >= 1 /\ lastCall.op = "RibbonTrail") =>
        /\ Len(mIndices) = MaxVertexCount(mNumSegments)
        /\ mIndices = TriStripPrefix(MaxVertexCount(mNumSegments))
        /\ {mIndices[i] : i \in 1 .. Len(mIndices)} = 0 .. MaxVertexCount(mNumSegments) - 1

\* a trail of the largest segment count, just constructed
C15_Witness ==
    /\ lastCall.op = "RibbonTrail"
    /\ mNumSegments = MaxSegments
    /\ Len(mIndices) = 2 * MaxSegments + 2

(***************************************************************************)
(* C18: with N >= 1, no sequence of addVertexPair calls modifies the index *)
(* sequence: the guard mIndices.size() <= vertCap - 2 is false in every    *)
(* reachable state, getNumIndices() is 4 + 2*(N-1) and the contents are    *)
(* the constructor's.                                                      *)
(***************************************************************************)
C18_IndicesFrozenAfterConstruction ==
    mNumSegments >= 1 =>
        /\ ~(Len(mIndices) <= SizeSub(VertCap(mNumSegments), 2))
        /\ mIndices = CtorIndices(mNumSegments)
        /\ Len(mIndices) = MaxVertexCount(mNumSegments)
        /\ (lastCall.op = "getNumIndices" =>
                lastCall.count = MaxVertexCount(mNumSegments))

\* getNumIndices() called after the last call the model allows
C18_Witness ==
    /\ mNumSegments >= 1
    /\ pairCount = MaxCalls
    /\ lastCall.op = "getNumIndices"

(***************************************************************************)
(* C19: with segment count 0 the capacity 4 + 2*(mNumSegments-1) wraps to  *)
(* 2 in size_t arithmetic, and after any number of addVertexPair calls the *)
(* trail holds at most 2 vertices and the index sequence at most 2 entries.*)
(***************************************************************************)
C19_ZeroSegmentsWrapToTwo ==
    mNumSegments = 0 =>
        /\ VertCap(mNumSegments) = 2
        /\ Len(mVertices) <= 2
        /\ Len(mIndices) <= 2

\* a trail of segment count 0 after a discarding call, with its two indices
C19_Witness ==
    /\ mNumSegments = 0
    /\ pairCount >= 2
    /\ lastCall.op = "addVertexPair"
    /\ Len(mVertices) = 2
    /\ Len(mIndices) = 2

(***************************************************************************)
(* C16: with a single animation thread started as in main, every timer     *)
(* tick adds the step to g_numDrawElements below the maximum or resets it  *)
(* to the initial value at the maximum, so the count given to              *)
(* glDrawElements is one of 2, 4, 6, 8, the counter cycles 2,4,6,8,2,...   *)
(* and never exceeds the 8 indices of the bound element buffer.            *)
(***************************************************************************)
C16_DrawCountCyclesWithinBuffer ==
    /\ [](startCount <= 1 =>
             /\ g_numDrawElements \in {2, 4, 6, 8}
             /\ drawn \in {NotDrawn, 2, 4, 6, 8}
             /\ drawn <= BoundElementCount
             /\ g_numDrawElements <= BoundElementCount)
    /\ [][startCount' <= 1 =>
             \/ g_numDrawElements' = g_numDrawElements
             \/ <<g_numDrawElements, g_numDrawElements'>>
                    \in {<<2, 4>>, <<4, 6>>, <<6, 8>>, <<8, 2>>}]_vars

\* the single thread has reset the counter after the render loop drew all 8
C16_Witness ==
    /\ startCount = 1
    /\ drawn = 8
    /\ g_numDrawElements = 2
    /\ pc[1] = "test"

(***************************************************************************)
(* C17: after stop_animation(), with no later start_animation(), a running *)
(* animation thread eventually leaves its loop and terminates, and it      *)
(* calls periodicFunc at most once more after the flag became false.       *)
(***************************************************************************)
C17_StopEndsTheThread ==
    /\ [](\A t \in Threads : funcAfterStop[t] <= 1)
    /\ \A t \in Threads :
           (~g_shouldRunAnimationThread /\ pc[t] # "none")
               ~> (pc[t] = "done" \/ g_shouldRunAnimationThread)

\* a thread that called periodicFunc once after the flag was lowered and ended
C17_Witness ==
    /\ ~g_shouldRunAnimationThread
    /\ startCount = 1
    /\ pc[1] = "done"
    /\ funcAfterStop[1] = 1

(***************************************************************************)
(* C20: for any sequence of start_animation() and stop_animation() calls   *)
(* at most one animation thread is in its loop at a time, so               *)
(* g_numDrawElements has at most one writer.                               *)
(***************************************************************************)
C20_AtMostOneAnimationThread ==
    Cardinality(Looping) <= 1

====
